---- MODULE Spec2Model ----
(***************************************************************************)
(* A state-machine model of ashvi_bot.py: the sqlite persistence layer     *)
(* (tables users and messages), the conversation assembler ai_response,    *)
(* the start and chat handlers and the admin commands stats, ban, unban.   *)
(*                                                                         *)
(* A text is a sequence of string fragments, so that str.strip(), int()    *)
(* and str() are computed rather than assumed.  Python's None, True and    *)
(* False are the strings PyNone, PyTrue and PyFalse.  The emoji of the     *)
(* literal replies are left out of the string constants.                   *)
(***************************************************************************)
EXTENDS Integers, Sequences, FiniteSets, TLC

VARIABLES
    users,            \* table users: a set of rows [user_id, name, banned]
    messages,         \* table messages: a set of rows [id, user_id, role, content]
    sqlite_sequence,  \* AUTOINCREMENT counter of messages.id
    last,             \* the latest handler invocation (or direct call) and what it did
    banHist,          \* history: per id, the latest executed set_ban ("none", "ban",
                      \* "unban") and whether a set_ban(id, 1) was ever executed
    pending,          \* the updates fetched by run_polling and not yet dispatched
    blocked           \* the event-loop thread is inside a remote call that never returns

vars == <<users, messages, sqlite_sequence, last, banHist, pending, blocked>>

\* The variables of the update queue, which a handler does not touch.
loop == <<pending, blocked>>

\* ------------------------------------------------------------------ bounds

\* Cap on the number of rows of table messages.
MaxMsgs == 4

\* Largest limit passed to get_history in direct calls.
MaxLimit == 3

\* Cap on the number of fetched updates that wait for dispatch.
MaxPending == 2

\* Cap on the number of rows of table messages in SpecChat (six turns).
MaxChatMsgs == 12

\* ------------------------------------------------------------ input domains

PyNone  == "None"
PyTrue  == "True"
PyFalse == "False"

ADMIN_IDS == {1}

\* Identifiers of the accounts that send updates: the admin and one other.
Senders == {1, 2}

\* Identifiers a table row, a ban target or a direct call can carry.
Ids == {1, 2, 3}

\* update.effective_user.first_name ("" stands for a falsy first name).
FirstNames == {"", "Asha"}

\* update.message.text of plain text messages.
Texts == {<<"hello">>}

\* response.text of the remote model, before .strip().
RawResponses == {<<" ", "theek", " ", "hai", "\n">>}

\* What the remote call does: it returns a response or raises.
RemoteOutcomes ==
    {[kind |-> "ok", text |-> t] : t \in RawResponses} \cup {[kind |-> "error", text |-> <<>>]}

\* One whitespace-separated argument of a command, as its characters.
Tokens == {<<"0", "2">>, <<"3">>, <<"a", "b", "c">>}

\* context.args of /ban and /unban.
ArgLists == {<<>>} \cup {<<t>> : t \in Tokens}

\* ------------------------------------------------------------ fixed strings

SYSTEM_PROMPT == <<"You are Ashvi - a smart, friendly AI assistant from Patna. ...">>
GREETING      == <<"Namaste!\nMain Ashvi hoon - tumhari AI dost\nBas message bhejo, baat shuru!">>
APOLOGY       == <<"Thoda issue aa gaya, phir try karo.">>
DENIED        == <<"Admin only">>
USAGE_BAN     == <<"Usage: /ban user_id">>
USAGE_UNBAN   == <<"Usage: /unban user_id">>

\* ------------------------------------------------------- python primitives

Whitespace == {" ", "\n", "\t"}

RECURSIVE LStrip(_)
LStrip(t) == IF t # <<>> /\ Head(t) \in Whitespace THEN LStrip(Tail(t)) ELSE t

RECURSIVE RStrip(_)
RStrip(t) ==
    IF t # <<>> /\ t[Len(t)] \in Whitespace THEN RStrip(SubSeq(t, 1, Len(t) - 1)) ELSE t

\* str.strip()
Strip(t) == RStrip(LStrip(t))

DigitChars == <<"0", "1", "2", "3", "4", "5", "6", "7", "8", "9">>

IsDigit(c) == \E i \in 1..10 : DigitChars[i] = c

DigitVal(c) == (CHOOSE i \in 1..10 : DigitChars[i] = c) - 1

RECURSIVE DigitsVal(_, _)
DigitsVal(t, acc) ==
    IF t = <<>> THEN acc ELSE DigitsVal(Tail(t), acc * 10 + DigitVal(Head(t)))

\* A mutation: a token that is no integer is read as 0 instead of raising.
int_lenient(t) ==
    IF t # <<>> /\ \A i \in 1..Len(t) : IsDigit(t[i])
    THEN [raised |-> FALSE, value |-> DigitsVal(t, 0)]
    ELSE [raised |-> FALSE, value |-> 0]

\* int(s) for a token s: [raised, value]; ValueError unless s is an optional sign
\* followed by one or more digits.
int(t) ==
    LET body == IF t # <<>> /\ Head(t) \in {"-", "+"} THEN Tail(t) ELSE t
        ok   == body # <<>> /\ \A i \in 1..Len(body) : IsDigit(body[i])
        neg  == t # <<>> /\ Head(t) = "-"
    IN  IF ok
        THEN [raised |-> FALSE, value |-> IF neg THEN 0 - DigitsVal(body, 0) ELSE DigitsVal(body, 0)]
        ELSE [raised |-> TRUE, value |-> 0]

\* int(context.args[0]): IndexError on an empty list, else int() of the first token.
int_arg0(args) == IF Len(args) = 0 THEN [raised |-> TRUE, value |-> 0] ELSE int(args[1])

RECURSIVE NatStr(_)
NatStr(n) ==
    IF n < 10 THEN <<DigitChars[n + 1]>> ELSE NatStr(n \div 10) \o <<DigitChars[(n % 10) + 1]>>

\* str(n), as an f-string formats an integer.
Str(n) == IF n < 0 THEN <<"-">> \o NatStr(0 - n) ELSE NatStr(n)

\* x or "User"
OrUser(first_name) == IF first_name = "" THEN "User" ELSE first_name

\* ------------------------------------------------------- persistence layer

HasRow(U, user_id) == \E r \in U : r.user_id = user_id

RowOf(U, user_id) == CHOOSE r \in U : r.user_id = user_id

\* A mutation: the insert left out.
ensure_user_skip(U, user_id, name) == U

\* The ban flag of user_id is set in table U.
BanFlagSet(U, user_id) == \E r \in U : r.user_id = user_id /\ r.banned = 1

\* The rows of user_id in table M.
RowsOf(M, user_id) == {m \in M : m.user_id = user_id}

\* A mutation: INSERT OR REPLACE, the row of a known user written anew.
ensure_user_replace(U, user_id, name) ==
    {r \in U : r.user_id # user_id} \cup {[user_id |-> user_id, name |-> name, banned |-> 0]}

\* INSERT OR IGNORE INTO users (user_id, name): banned takes its DEFAULT 0.
ensure_user(U, user_id, name) ==
    IF HasRow(U, user_id)
    THEN U
    ELSE U \cup {[user_id |-> user_id, name |-> name, banned |-> 0]}

\* A mutation: the comparison dropped, every existing row reads as not banned.
is_banned_never(U, user_id) ==
    IF ~HasRow(U, user_id) THEN PyNone ELSE PyFalse

\* row = fetchone(); return row and row[0] == 1
is_banned(U, user_id) ==
    IF ~HasRow(U, user_id) THEN PyNone
    ELSE IF RowOf(U, user_id).banned = 1 THEN PyTrue ELSE PyFalse

\* Python truth of a value returned by is_banned.
Truthy(v) == v = PyTrue

\* A mutation: the WHERE clause left out, every row updated.
set_ban_everyone(U, user_id, value) == {[r EXCEPT !.banned = value] : r \in U}

\* A mutation: an upsert, which creates the row the UPDATE does not find.
set_ban_upsert(U, user_id, value) ==
    {r \in U : r.user_id # user_id}
        \cup {[user_id |-> user_id,
               name |-> IF HasRow(U, user_id) THEN RowOf(U, user_id).name ELSE "User",
               banned |-> value]}

\* UPDATE users SET banned=? WHERE user_id=?
set_ban(U, user_id, value) ==
    {IF r.user_id = user_id THEN [r EXCEPT !.banned = value] ELSE r : r \in U}

\* A mutation: ids numbered per user instead of by the table's counter.
save_message_per_user(M, seq, user_id, role, text) ==
    M \cup {[id |-> Cardinality(RowsOf(M, user_id)) + 1, user_id |-> user_id,
             role |-> role, content |-> text]}

\* INSERT INTO messages (user_id, role, content): id is the counter plus one.
save_message(M, seq, user_id, role, text) ==
    M \cup {[id |-> seq + 1, user_id |-> user_id, role |-> role, content |-> text]}

\* ORDER BY id DESC
RECURSIVE OrderByIdDesc(_)
OrderByIdDesc(S) ==
    IF S = {} THEN <<>>
    ELSE LET top == CHOOSE r \in S : \A q \in S : q.id <= r.id
         IN  <<top>> \o OrderByIdDesc(S \ {top})

\* LIMIT n (n >= 0)
Limit(s, n) == SubSeq(s, 1, IF n < Len(s) THEN n ELSE Len(s))

\* s[::-1]
Reversed(s) == [i \in 1..Len(s) |-> s[Len(s) + 1 - i]]

\* A mutation: the [::-1] left out.
get_history_newest_first(M, user_id, limit) ==
    LET rows == Limit(OrderByIdDesc({r \in M : r.user_id = user_id}), limit)
    IN  [i \in 1..Len(rows) |-> <<rows[i].role, rows[i].content>>]

\* SELECT role, content ... WHERE user_id=? ORDER BY id DESC LIMIT ?, reversed.
get_history(M, user_id, limit) ==
    LET rows == Limit(OrderByIdDesc({r \in M : r.user_id = user_id}), limit)
    IN  Reversed([i \in 1..Len(rows) |-> <<rows[i].role, rows[i].content>>])

\* SELECT COUNT(*) FROM users
total_users(U) == Cardinality(U)

\* ---------------------------------------------------- conversation assembler

\* The default of get_history's limit parameter.
HistoryLimit == 8

\* The history handed to start_chat: the system prompt, then the pairs h as dicts.
HistoryOf(h) ==
    <<[role |-> "user", parts |-> <<SYSTEM_PROMPT>>]>>
        \o [i \in 1..Len(h) |-> [role |-> h[i][1], parts |-> <<h[i][2]>>]]

\* A mutation: get_history called for every row, with no limit of 8.
ai_response_unbounded(M, user_id, text, remote) ==
    [history |-> HistoryOf(get_history(M, user_id, Cardinality(M))),
     sent    |-> text,
     calls   |-> 1,
     raised  |-> remote.kind = "error",
     value   |-> IF remote.kind = "error" THEN <<>> ELSE Strip(remote.text)]

\* A mutation: send_message tried a second time when it raises.
ai_response_retry(M, user_id, text, remote) ==
    [history |-> HistoryOf(get_history(M, user_id, HistoryLimit)),
     sent    |-> text,
     calls   |-> IF remote.kind = "error" THEN 2 ELSE 1,
     raised  |-> remote.kind = "error",
     value   |-> IF remote.kind = "error" THEN <<>> ELSE Strip(remote.text)]

\* ai_response: the history handed to start_chat, the number of send_message calls,
\* and the outcome of the call (response.text.strip() or a raised error).
ai_response(M, user_id, text, remote) ==
    [history |-> HistoryOf(get_history(M, user_id, HistoryLimit)),
     sent    |-> text,
     calls   |-> 1,
     raised  |-> remote.kind = "error",
     value   |-> IF remote.kind = "error" THEN <<>> ELSE Strip(remote.text)]

\* ------------------------------------------------------------------ handlers

\* The history after set_ban(user_id, value) has been executed.
Executed(H, user_id, value) ==
    [id \in Ids |->
        IF id = user_id
        THEN [latest |-> IF value = 1 THEN "ban" ELSE "unban", ever |-> H[id].ever \/ value = 1]
        ELSE H[id]]

\* A mutation: the except clause does not substitute the apology.
reply_of_unhandled(ai) == ai.value

\* try: reply = ai_response(...) except Exception: reply = the apology
reply_of(ai) == IF ai.raised THEN APOLOGY ELSE ai.value

\* The record of an invocation that replied nothing and called nothing.
Quiet(op, user_id) ==
    [op |-> op, user |-> user_id, arg |-> <<>>, replies |-> <<>>, aiCalls |-> 0,
     aiHistory |-> <<>>, totalUsersCalls |-> 0, setBanCalls |-> 0, result |-> PyNone]

Init ==
    /\ users = {}
    /\ messages = {}
    /\ sqlite_sequence = 0
    /\ last = Quiet("init", 0)
    /\ banHist = [id \in Ids |-> [latest |-> "none", ever |-> FALSE]]
    /\ pending = <<>>
    /\ blocked = FALSE

start(user_id, first_name) ==
    /\ users' = ensure_user(users, user_id, OrUser(first_name))
    /\ last' = [Quiet("start", user_id) EXCEPT !.replies = <<GREETING>>]
    /\ UNCHANGED <<messages, sqlite_sequence, banHist>>

\* A mutation: the inbound message saved before the ban check.
chat_saves_first(user_id, first_name, text, remote) ==
    LET U1 == ensure_user(users, user_id, OrUser(first_name))
        M1 == save_message(messages, sqlite_sequence, user_id, "user", text)
    IN  IF Truthy(is_banned(U1, user_id))
        THEN /\ users' = U1
             /\ messages' = M1
             /\ sqlite_sequence' = sqlite_sequence + 1
             /\ last' = [Quiet("chat", user_id) EXCEPT !.arg = text]
             /\ UNCHANGED banHist
        ELSE LET ai    == ai_response(M1, user_id, text, remote)
                 reply == reply_of(ai)
                 M2    == save_message(M1, sqlite_sequence + 1, user_id, "model", reply)
             IN  /\ users' = U1
                 /\ messages' = M2
                 /\ sqlite_sequence' = sqlite_sequence + 2
                 /\ last' = [Quiet("chat", user_id) EXCEPT
                                !.arg = text, !.replies = <<reply>>, !.aiCalls = ai.calls,
                                !.aiHistory = ai.history,
                                !.result = IF ai.raised THEN "raised" ELSE "ok"]
                 /\ UNCHANGED banHist

chat(user_id, first_name, text, remote) ==
    LET U1 == ensure_user(users, user_id, OrUser(first_name))
    IN  IF Truthy(is_banned(U1, user_id))
        THEN /\ users' = U1
             /\ last' = [Quiet("chat", user_id) EXCEPT !.arg = text]
             /\ UNCHANGED <<messages, sqlite_sequence, banHist>>
        ELSE LET M1    == save_message(messages, sqlite_sequence, user_id, "user", text)
                 ai    == ai_response(M1, user_id, text, remote)
                 reply == reply_of(ai)
                 M2    == save_message(M1, sqlite_sequence + 1, user_id, "model", reply)
             IN  /\ users' = U1
                 /\ messages' = M2
                 /\ sqlite_sequence' = sqlite_sequence + 2
                 /\ last' = [Quiet("chat", user_id) EXCEPT
                                !.arg = text, !.replies = <<reply>>, !.aiCalls = ai.calls,
                                !.aiHistory = ai.history,
                                !.result = IF ai.raised THEN "raised" ELSE "ok"]
                 /\ UNCHANGED banHist

\* A mutation: the allow-list test left out of the wrapper.
admin_only_open(user_id, op, Body) == Body

\* The decorator: wrapper(update, context) around the handler body.
admin_only(user_id, op, Body) ==
    IF user_id \notin ADMIN_IDS
    THEN /\ last' = [Quiet(op, user_id) EXCEPT !.replies = <<DENIED>>]
         /\ UNCHANGED <<users, messages, sqlite_sequence, banHist>>
    ELSE Body

stats_body(user_id) ==
    /\ last' = [Quiet("stats", user_id) EXCEPT
                   !.replies = <<<<"Ashvi Stats\n\nTotal users: ">> \o Str(total_users(users))>>,
                   !.totalUsersCalls = 1]
    /\ UNCHANGED <<users, messages, sqlite_sequence, banHist>>

stats(user_id) == admin_only(user_id, "stats", stats_body(user_id))

\* The shared shape of ban and unban: try int(args[0]); set_ban; reply; except: usage.
\* confirmOk is whether the confirming reply_text returns (it raises otherwise, and
\* the bare except then sends the usage string).
flag_body(op, user_id, args, confirmOk, value, done, usage) ==
    LET uid == int_arg0(args)
    IN  IF uid.raised
        THEN /\ last' = [Quiet(op, user_id) EXCEPT !.arg = args, !.replies = <<usage>>]
             /\ UNCHANGED <<users, messages, sqlite_sequence, banHist>>
        ELSE /\ users' = set_ban(users, uid.value, value)
             /\ banHist' = Executed(banHist, uid.value, value)
             /\ last' = [Quiet(op, user_id) EXCEPT
                            !.arg = args, !.setBanCalls = 1, !.result = uid.value,
                            !.replies = IF confirmOk
                                        THEN <<<<"User ">> \o Str(uid.value) \o done>>
                                        ELSE <<usage>>]
             /\ UNCHANGED <<messages, sqlite_sequence>>

ban_body(user_id, args, confirmOk) ==
    flag_body("ban", user_id, args, confirmOk, 1, <<" banned">>, USAGE_BAN)

unban_body(user_id, args, confirmOk) ==
    flag_body("unban", user_id, args, confirmOk, 0, <<" unbanned">>, USAGE_UNBAN)

ban(user_id, args, confirmOk) == admin_only(user_id, "ban", ban_body(user_id, args, confirmOk))

unban(user_id, args, confirmOk) ==
    admin_only(user_id, "unban", unban_body(user_id, args, confirmOk))

\* Whether a text message of user_id may be handled with at most cap rows in table
\* messages afterwards: a dropped message writes none, an answered one writes two.
Room(cap, user_id) == BanFlagSet(users, user_id) \/ sqlite_sequence + 2 <= cap

Next ==
    \/ \E u \in Senders, n \in FirstNames : start(u, n) /\ UNCHANGED loop
    \/ \E u \in Senders, n \in FirstNames, t \in Texts, r \in RemoteOutcomes :
          Room(MaxMsgs, u) /\ chat(u, n, t, r) /\ UNCHANGED loop
    \/ \E u \in Senders : stats(u) /\ UNCHANGED loop
    \/ \E u \in Senders, a \in ArgLists, ok \in BOOLEAN : ban(u, a, ok) /\ UNCHANGED loop
    \/ \E u \in Senders, a \in ArgLists, ok \in BOOLEAN : unban(u, a, ok) /\ UNCHANGED loop

Spec == Init /\ [][Next]_vars

\* Text messages only, up to MaxChatMsgs rows: logs longer than the history limit.
NextChat ==
    \E u \in Senders, n \in FirstNames, t \in Texts, r \in RemoteOutcomes :
        Room(MaxChatMsgs, u) /\ chat(u, n, t, r) /\ UNCHANGED loop

SpecChat == Init /\ [][NextChat]_vars

\* ------------------------------------------------------- the polling loop

\* The updates run_polling delivers: text messages and the four commands.
Update(kind, user_id, args) ==
    [kind |-> kind, user |-> user_id, first_name |-> "", text |-> <<"hello">>, args |-> args]

Updates ==
    {Update("text", u, <<>>) : u \in Senders}
        \cup {Update("start", 2, <<>>), Update("stats", 1, <<>>),
              Update("ban", 1, <<<<"0", "2">>>>), Update("unban", 1, <<<<"0", "2">>>>)}

\* run_polling puts a fetched update on the queue.  It runs on the event loop, so
\* not while the loop's thread is held by a call that does not return.
fetch(upd) ==
    /\ ~blocked
    /\ Len(pending) < MaxPending
    /\ pending' = Append(pending, upd)
    /\ UNCHANGED <<users, messages, sqlite_sequence, last, banHist, blocked>>

\* The handler the Application runs for an update (main registers one per kind).
Handle(upd) ==
    \/ /\ upd.kind = "text"
       /\ \E r \in RemoteOutcomes :
             Room(MaxMsgs, upd.user) /\ chat(upd.user, upd.first_name, upd.text, r)
    \/ upd.kind = "start" /\ start(upd.user, upd.first_name)
    \/ upd.kind = "stats" /\ stats(upd.user)
    \/ upd.kind = "ban" /\ \E ok \in BOOLEAN : ban(upd.user, upd.args, ok)
    \/ upd.kind = "unban" /\ \E ok \in BOOLEAN : unban(upd.user, upd.args, ok)

\* The Application takes the oldest update and runs its handler to the end before
\* the next one; the handlers' only awaits are the reply_text calls at their ends.
dispatch ==
    /\ ~blocked
    /\ pending # <<>>
    /\ Handle(Head(pending))
    /\ pending' = Tail(pending)
    /\ UNCHANGED blocked

\* chat when send_message never returns: ensure_user, the ban check and the first
\* save_message have run, and ai_response holds the thread inside the synchronous
\* (not awaited) send_message call for good.
chat_hang(user_id, first_name, text) ==
    LET U1 == ensure_user(users, user_id, OrUser(first_name))
        M1 == save_message(messages, sqlite_sequence, user_id, "user", text)
    IN  /\ ~Truthy(is_banned(U1, user_id))
        /\ users' = U1
        /\ messages' = M1
        /\ sqlite_sequence' = sqlite_sequence + 1
        /\ last' = [Quiet("chat", user_id) EXCEPT
                       !.arg = text, !.aiCalls = 1,
                       !.aiHistory = HistoryOf(get_history(M1, user_id, HistoryLimit)),
                       !.result = "hung"]
        /\ blocked' = TRUE
        /\ UNCHANGED banHist

dispatch_hang ==
    /\ ~blocked
    /\ pending # <<>>
    /\ Head(pending).kind = "text"
    /\ sqlite_sequence + 2 <= MaxMsgs
    /\ chat_hang(Head(pending).user, Head(pending).first_name, Head(pending).text)
    /\ pending' = Tail(pending)

NextLoop ==
    \/ \E upd \in Updates : fetch(upd)
    \/ dispatch
    \/ dispatch_hang

SpecLoop == Init /\ [][NextLoop]_vars

\* ------------------------------------------- the persistence layer, called directly

\* The arguments of direct calls.
Names == {"User", "Asha"}
Roles == {"user", "model"}

call_ensure_user(user_id, name) ==
    /\ users' = ensure_user(users, user_id, name)
    /\ last' = [Quiet("ensure_user", user_id) EXCEPT !.arg = name]
    /\ UNCHANGED <<messages, sqlite_sequence, banHist>>

call_is_banned(user_id) ==
    /\ last' = [Quiet("is_banned", user_id) EXCEPT !.result = is_banned(users, user_id)]
    /\ UNCHANGED <<users, messages, sqlite_sequence, banHist>>

call_set_ban(user_id, value) ==
    /\ users' = set_ban(users, user_id, value)
    /\ banHist' = Executed(banHist, user_id, value)
    /\ last' = [Quiet("set_ban", user_id) EXCEPT !.arg = value, !.setBanCalls = 1]
    /\ UNCHANGED <<messages, sqlite_sequence>>

\* set_ban(id, 1); set_ban(id, 0); is_banned(id)
call_ban_round_trip(user_id) ==
    LET U2 == set_ban(set_ban(users, user_id, 1), user_id, 0)
    IN  /\ users' = U2
        /\ banHist' = Executed(Executed(banHist, user_id, 1), user_id, 0)
        /\ last' = [Quiet("round_trip", user_id) EXCEPT
                       !.setBanCalls = 2, !.result = is_banned(U2, user_id)]
        /\ UNCHANGED <<messages, sqlite_sequence>>

call_total_users ==
    /\ last' = [Quiet("total_users", 0) EXCEPT
                   !.totalUsersCalls = 1, !.result = total_users(users)]
    /\ UNCHANGED <<users, messages, sqlite_sequence, banHist>>

NextUsers ==
    \/ \E u \in Senders, n \in Names : call_ensure_user(u, n) /\ UNCHANGED loop
    \/ \E u \in Senders : call_is_banned(u) /\ UNCHANGED loop
    \/ \E u \in Senders, v \in {0, 1} : call_set_ban(u, v) /\ UNCHANGED loop
    \/ \E u \in Senders : call_ban_round_trip(u) /\ UNCHANGED loop
    \/ call_total_users /\ UNCHANGED loop

SpecUsers == Init /\ [][NextUsers]_vars

call_save_message(user_id, role, text) ==
    /\ sqlite_sequence < MaxMsgs
    /\ messages' = save_message(messages, sqlite_sequence, user_id, role, text)
    /\ sqlite_sequence' = sqlite_sequence + 1
    /\ last' = [Quiet("save_message", user_id) EXCEPT !.arg = <<role, text>>]
    /\ UNCHANGED <<users, banHist>>

call_get_history(user_id, limit) ==
    /\ last' = [Quiet("get_history", user_id) EXCEPT
                   !.arg = limit, !.result = get_history(messages, user_id, limit)]
    /\ UNCHANGED <<users, messages, sqlite_sequence, banHist>>

NextMessages ==
    \/ \E u \in Senders, r \in Roles, t \in Texts : call_save_message(u, r, t) /\ UNCHANGED loop
    \/ \E u \in Senders, n \in 0..MaxLimit : call_get_history(u, n) /\ UNCHANGED loop

SpecMessages == Init /\ [][NextMessages]_vars

\* ------------------------------------------------------------------- claims

\* C1: a text message handled by chat while its sender's ban flag is set writes no
\* Message row, does not invoke the conversation assembler and sends no reply,
\* whatever events came before.
C1_BannedChatDropped ==
    [][(last'.op = "chat" /\ BanFlagSet(users, last'.user))
        => /\ messages' = messages
           /\ sqlite_sequence' = sqlite_sequence
           /\ last'.aiCalls = 0
           /\ last'.replies = <<>>]_vars

\* A banned user who has chatted before has just sent a text, and nothing came back.
C1_Witness ==
    /\ last.op = "chat"
    /\ BanFlagSet(users, last.user)
    /\ RowsOf(messages, last.user) # {}
    /\ last.replies = <<>>

\* C2: when the remote model call raises during a text message of a non-banned user,
\* the handler completes, the one reply is the apology string, the "model" row of the
\* turn holds that same string, and the call was made once.
C2_ApologyOnError ==
    (last.op = "chat" /\ last.result = "raised")
        => /\ last.replies = <<APOLOGY>>
           /\ last.aiCalls = 1
           /\ [id |-> sqlite_sequence, user_id |-> last.user,
               role |-> "model", content |-> APOLOGY] \in messages
           /\ [id |-> sqlite_sequence - 1, user_id |-> last.user,
               role |-> "user", content |-> last.arg] \in messages

\* The remote call has just raised in a user's second turn.
C2_Witness ==
    /\ last.op = "chat"
    /\ last.result = "raised"
    /\ sqlite_sequence = 4
    /\ last.replies = <<APOLOGY>>

\* C3: stats, ban or unban invoked by a user outside ADMIN_IDS replies the denial
\* message and executes nothing: total_users and set_ban are not called and no row
\* of users changes.
C3_AdminOnly ==
    [][(last'.op \in {"stats", "ban", "unban"} /\ last'.user \notin ADMIN_IDS)
        => /\ last'.replies = <<DENIED>>
           /\ last'.totalUsersCalls = 0
           /\ last'.setBanCalls = 0
           /\ users' = users]_vars

\* A user outside the allow-list has just tried to lift their own ban and was denied.
C3_Witness ==
    /\ last.op = "unban"
    /\ last.user \notin ADMIN_IDS
    /\ BanFlagSet(users, last.user)
    /\ last.replies = <<DENIED>>

\* C4 (as claimed): the first text message of a user with no Message rows creates
\* the User row, appends (user, "user", text), invokes the assembler with a history
\* that holds the system prompt and nothing else, and on success persists and sends
\* the reply.
C4_FirstMessageHistory ==
    [][(last'.op = "chat" /\ RowsOf(messages, last'.user) = {} /\ last'.aiCalls = 1)
        => /\ HasRow(users', last'.user)
           /\ [id |-> sqlite_sequence + 1, user_id |-> last'.user,
               role |-> "user", content |-> last'.arg] \in messages'
           /\ last'.aiHistory = <<[role |-> "user", parts |-> <<SYSTEM_PROMPT>>]>>
           /\ (last'.result = "ok"
                 => /\ Len(last'.replies) = 1
                    /\ [id |-> sqlite_sequence + 2, user_id |-> last'.user,
                        role |-> "model", content |-> last'.replies[1]] \in messages')]_vars

\* C5 (as claimed): once an admin's ban(id) has executed, is_banned(id) is true and
\* every text message of id is dropped, until unban(id); after unban(id) the flag is
\* not set.  This for every integer id, with or without a User row.
C5_BanSetsFlag ==
    /\ \A id \in Ids :
          /\ banHist[id].latest = "ban" => is_banned(users, id) = PyTrue
          /\ banHist[id].latest = "unban" => ~Truthy(is_banned(users, id))
    /\ (last.op = "chat" /\ banHist[last.user].latest = "ban")
          => (last.replies = <<>> /\ last.aiCalls = 0)

\* C6 (as claimed): while a user's ban flag is set, neither a text message nor the
\* start command of that user gets a reply or adds a Message row.
C6_BannedGetsNoReply ==
    [][(last'.op \in {"chat", "start"} /\ BanFlagSet(users, last'.user))
        => (last'.replies = <<>> /\ messages' = messages)]_vars

\* C7: ensure_user(id, n2) for an id whose row was created with another name n1
\* leaves exactly one row for id, with name n1 and the ban flag it had, and changes
\* no other row.
C7_EnsureUserIdempotent ==
    [][(last'.op = "ensure_user" /\ HasRow(users, last'.user)
            /\ RowOf(users, last'.user).name # last'.arg)
        => /\ Cardinality({r \in users' : r.user_id = last'.user}) = 1
           /\ RowOf(users', last'.user) = RowOf(users, last'.user)
           /\ users' = users]_vars

\* ensure_user was just called with a new name for a banned user, whose row kept
\* the first name and the flag.
C7_Witness ==
    /\ last.op = "ensure_user"
    /\ HasRow(users, last.user)
    /\ RowOf(users, last.user).name # last.arg
    /\ RowOf(users, last.user).banned = 1

\* C8 (as claimed): is_banned(id) returns a boolean for every id, and False for
\* every id for which set_ban(id, 1) never ran, a User row existing or not.
C8_IsBannedBoolean ==
    last.op = "is_banned"
        => /\ last.result \in {PyTrue, PyFalse}
           /\ (~banHist[last.user].ever => last.result = PyFalse)

\* C9 (as claimed): after set_ban(id, 1) and then set_ban(id, 0), is_banned(id) is
\* False, whatever the state before.
C9_RoundTrip ==
    last.op = "round_trip" => last.result = PyFalse

\* C10: get_history(id, limit) returns min(limit, number of rows of id) pairs; its
\* k-th pair is (role, content) of the row of id that has exactly (length - k) newer
\* rows of id, so the pairs are the newest rows of id, oldest first, and of id only.
C10_GetHistory ==
    last.op = "get_history"
        => LET mine == RowsOf(messages, last.user)
               n    == Cardinality(mine)
               h    == last.result
           IN  /\ Len(h) = (IF last.arg < n THEN last.arg ELSE n)
               /\ Len(h) <= last.arg
               /\ \A k \in 1..Len(h) :
                     \E m \in mine :
                        /\ h[k] = <<m.role, m.content>>
                        /\ Cardinality({q \in mine : q.id > m.id}) = Len(h) - k

\* get_history cut a log of three rows or more down to two, another user's rows
\* lying in between.
C10_Witness ==
    /\ last.op = "get_history"
    /\ last.arg = 2
    /\ Cardinality(RowsOf(messages, last.user)) > 2
    /\ Len(last.result) = 2
    /\ \E m \in messages : m.user_id # last.user /\ m.id > 1 /\ m.id < sqlite_sequence

\* The argument lists of /ban and /unban that hold no integer: none, or a first
\* token that is no integer literal.
BadArgLists == {<<>>, <<<<"a", "b", "c">>>>}

\* C11: ban or unban invoked by an admin with a missing or non-integer argument
\* completes, replies the usage string of the command and nothing else, runs no
\* set_ban and leaves table users as it was.
C11_UsageOnBadArgument ==
    [][(last'.op \in {"ban", "unban"} /\ last'.user \in ADMIN_IDS /\ last'.arg \in BadArgLists)
        => /\ last'.replies = <<IF last'.op = "ban" THEN USAGE_BAN ELSE USAGE_UNBAN>>
           /\ last'.setBanCalls = 0
           /\ users' = users
           /\ banHist' = banHist]_vars

\* The admin has just sent "/ban abc" while a banned and a not banned user exist.
C11_Witness ==
    /\ last.op = "ban"
    /\ last.user \in ADMIN_IDS
    /\ last.arg = <<<<"a", "b", "c">>>>
    /\ last.replies = <<USAGE_BAN>>
    /\ \E r \in users : r.banned = 1
    /\ \E r \in users : r.banned = 0

\* C12: set_ban(id, value) for an id without a User row changes nothing in table
\* users: no row is created, the count is the same and no flag changes.
C12_SetBanUnknownId ==
    [][(last'.op = "set_ban" /\ ~HasRow(users, last'.user))
        => /\ users' = users
           /\ total_users(users') = total_users(users)
           /\ ~HasRow(users', last'.user)]_vars

\* set_ban(id, 1) has just run for an id without a row, next to another user's row.
C12_Witness ==
    /\ last.op = "set_ban"
    /\ last.arg = 1
    /\ ~HasRow(users, last.user)
    /\ users # {}

\* The rows of user_id that get_history saw in the latest chat turn: all but the
\* "model" row, which chat wrote after the call.
RowsAtCall == {m \in RowsOf(messages, last.user) : m.id < sqlite_sequence}

\* C13: the history passed to the model starts with the system instruction, followed
\* by min(8, rows of the user) dicts; the k-th element is the row of that user with
\* exactly (length - k) newer rows of that user, so the history holds the newest rows
\* of that user only, oldest first, and never more than 9 elements.
C13_HistoryBounded ==
    (last.op = "chat" /\ last.aiCalls > 0)
        => LET h == last.aiHistory
               n == Cardinality(RowsAtCall)
           IN  /\ Len(h) >= 1
               /\ h[1] = [role |-> "user", parts |-> <<SYSTEM_PROMPT>>]
               /\ Len(h) <= 9
               /\ Len(h) - 1 = (IF n < 8 THEN n ELSE 8)
               /\ \A k \in 2..Len(h) :
                     \E m \in RowsAtCall :
                        /\ h[k] = [role |-> m.role, parts |-> <<m.content>>]
                        /\ Cardinality({q \in RowsAtCall : q.id > m.id}) = Len(h) - k

\* A user's fifth turn: nine rows of that user were stored at the call and the history
\* held the system instruction and eight of them.
C13_Witness ==
    /\ last.op = "chat"
    /\ Cardinality(RowsAtCall) = 9
    /\ Len(last.aiHistory) = 9

\* C14: a text message of a user whose ban flag is not set makes exactly one remote
\* call, also when the call raises; a text message of a banned user and the commands
\* start, stats, ban and unban make none.
C14_OneRemoteCall ==
    [][/\ (last'.op = "chat" /\ ~BanFlagSet(users, last'.user)) => last'.aiCalls = 1
       /\ (last'.op = "chat" /\ BanFlagSet(users, last'.user)) => last'.aiCalls = 0
       /\ last'.op \in {"start", "stats", "ban", "unban"} => last'.aiCalls = 0]_vars

\* The remote call has just raised, and it was made once.
C14_Witness ==
    /\ last.op = "chat"
    /\ last.result = "raised"
    /\ last.aiCalls = 1

\* C15 (as claimed): when the remote call of one message hangs for good, the updates
\* already queued behind it can still be dispatched.
C15_HangStallsOnlyOne ==
    (blocked /\ pending # <<>>) => ENABLED (dispatch \/ dispatch_hang)

\* C16: the message log is append-only: every step keeps every row as it is, gives
\* each new row an id greater than all ids present before, and no two rows share an
\* id.
C16_LogAppendOnly ==
    [][/\ messages \subseteq messages'
       /\ \A m \in messages' \ messages : \A q \in messages : m.id > q.id
       /\ \A a, b \in messages' : a.id = b.id => a = b]_vars

\* The log has been extended twice, by two users.
C16_Witness ==
    /\ Cardinality(messages) = 4
    /\ \E a, b \in messages : a.user_id # b.user_id /\ a.id < b.id

\* C17: no step deletes a User row or changes its name, so total_users never
\* decreases; a ban flag changes only in a ban or unban invoked by an admin with an
\* integer argument, for the row of that integer and to the value of the command.
C17_UsersFrame ==
    [][/\ \A r \in users : \E r2 \in users' : r2.user_id = r.user_id /\ r2.name = r.name
       /\ total_users(users') >= total_users(users)
       /\ \A r \in users : \A r2 \in users' :
             (r2.user_id = r.user_id /\ r2.banned # r.banned)
                 => /\ last'.op \in {"ban", "unban"}
                    /\ last'.user \in ADMIN_IDS
                    /\ \/ last'.arg = <<<<"0", "2">>>> /\ r.user_id = 2
                       \/ last'.arg = <<<<"3">>>> /\ r.user_id = 3
                    /\ r2.banned = (IF last'.op = "ban" THEN 1 ELSE 0)]_vars

\* The admin has just banned user 2 with "/ban 02" while the admin's own row exists.
C17_Witness ==
    /\ last.op = "ban"
    /\ last.arg = <<<<"0", "2">>>>
    /\ BanFlagSet(users, 2)
    /\ HasRow(users, 1)
    /\ ~BanFlagSet(users, 1)

\* The rows of each user, read by id, are "user", "model", "user", "model", ...
\* and even in number.
Alternates(M) ==
    \A u \in Ids :
        /\ Cardinality(RowsOf(M, u)) % 2 = 0
        /\ \A m \in RowsOf(M, u) :
              m.role = (IF Cardinality({q \in RowsOf(M, u) : q.id <= m.id}) % 2 = 1
                        THEN "user" ELSE "model")

\* C18: a handled text message of a non-banned user appends exactly the two rows
\* (user, "user", text) and (user, "model", reply), with consecutive ids and no row
\* between them; after every step each user's log alternates "user", "model",
\* starting with "user", and has even length.
C18_TurnsAlternate ==
    [][/\ (last'.op = "chat" /\ ~BanFlagSet(users, last'.user))
            => /\ Len(last'.replies) = 1
               /\ messages' = messages \cup
                     {[id |-> sqlite_sequence + 1, user_id |-> last'.user,
                       role |-> "user", content |-> last'.arg],
                      [id |-> sqlite_sequence + 2, user_id |-> last'.user,
                       role |-> "model", content |-> last'.replies[1]]}
               /\ Cardinality(messages') = Cardinality(messages) + 2
       /\ Alternates(messages')]_vars

\* A user has just finished a second turn, which answered with the apology.
C18_Witness ==
    /\ last.op = "chat"
    /\ Cardinality(RowsOf(messages, last.user)) = 4
    /\ last.replies = <<APOLOGY>>

\* C19: every Message row's user_id has a User row.
C19_NoDanglingUser ==
    \A m \in messages : HasRow(users, m.user_id)

\* Both users have rows in the log, and each has its User row.
C19_Witness ==
    /\ RowsOf(messages, 1) # {}
    /\ RowsOf(messages, 2) # {}
    /\ HasRow(users, 1)
    /\ HasRow(users, 2)

\* C20 (as claimed): an admin's ban or unban replies the usage string only when the
\* argument did not parse, and then set_ban did not run.
C20_UsageOnlyOnParseFailure ==
    (last.op \in {"ban", "unban"} /\ last.user \in ADMIN_IDS
        /\ \E i \in 1..Len(last.replies) : last.replies[i] \in {USAGE_BAN, USAGE_UNBAN})
        => (last.arg \in BadArgLists /\ last.setBanCalls = 0)

====
